---- MODULE Spec2Model ----
(***************************************************************************)
(* Model of easy_gar.reporting.ReportingAPI: the request/retry loop        *)
(* (_request_with_exponential_backoff), the request builder (_get) and     *)
(* the pagination / table building of get_report, run against a remote    *)
(* batchGet endpoint that answers each request nondeterministically.       *)
(*                                                                         *)
(* Python values are modelled with uniform shapes:                         *)
(*   optional argument  [isNone |-> BOOLEAN, value |-> v]                  *)
(*   dict               [keys |-> set of key names, <field> |-> value]     *)
(*   str(int)           the sequence of its decimal digits                 *)
(*   exception          [type |-> name, reason |-> r, attempt |-> k]       *)
(* Durations are counted in 1/JitterScale time units.                      *)
(***************************************************************************)
EXTENDS Integers, Sequences, FiniteSets, TLC

VARIABLES
    pc,          \* position of the caller: idle, attempt, page, done, raised
    op,          \* entry point that was called: "get_report" or "_get"
    args,        \* arguments of the call
    dimensions,  \* get_report's local `dimensions` after defaulting
    body,        \* request body built by _get
    n,           \* loop variable of the retry loop
    error,       \* local `error` of the retry loop
    response,    \* get_report's local `response`
    page_token,  \* get_report's local `page_token`
    result,      \* value returned to the caller
    raised,      \* exception that reached the caller
    requests,    \* history: bodies handed to batchGet(...).execute(), in order
    served,      \* history: reports returned by the endpoint, in order
    errs,        \* history: HttpErrors raised by the endpoint, in order
    slept,       \* history: arguments of time.sleep, in order
    jitters      \* history: values drawn from random.random(), in order

vars == <<pc, op, args, dimensions, body, n, error, response, page_token,
          result, raised, requests, served, errs, slept, jitters>>

----------------------------------------------------------------------------
(* Bounds of the model *)

MaxRows == 2          \* rows per page: 0..MaxRows
NumRowIds == 2        \* distinct row contents the endpoint can send
JitterScale == 4      \* random.random() is drawn from {0/4, 1/4, 2/4, 3/4}

(* Program constants *)

MaxAttempts == 5
DefaultPageSize == 10000

----------------------------------------------------------------------------
(* Python values *)

None == [isNone |-> TRUE, value |-> 0]
Some(v) == [isNone |-> FALSE, value |-> v]
NoneStr == [isNone |-> TRUE, value |-> ""]
NoneList == [isNone |-> TRUE, value |-> <<>>]

NoError == [type |-> "None", reason |-> "", attempt |-> 0]
HttpError(reason, k) == [type |-> "HttpError", reason |-> reason, attempt |-> k]
TypeError == [type |-> "TypeError", reason |-> "", attempt |-> 0]
AttributeError == [type |-> "AttributeError", reason |-> "_batch_get", attempt |-> 0]
KeyError == [type |-> "KeyError", reason |-> "data", attempt |-> 0]

RECURSIVE Str(_)
Str(i) == IF i < 10 THEN <<i>> ELSE Str(i \div 10) \o <<i % 10>>

RECURSIVE Pow2(_)
Pow2(k) == IF k = 0 THEN 1 ELSE 2 * Pow2(k - 1)

EmptyDict == [keys |-> {}, rows |-> <<>>, nextPageToken |-> ""]
NoBody == [keys |-> {}, samplingLevel |-> "", viewId |-> "",
           dateRanges |-> <<>>, metrics |-> <<>>, dimensions |-> <<>>,
           pageSize |-> <<>>, pageToken |-> "", orderBys |-> <<>>]
NoArgs == [sampling_level |-> NoneStr, start_date |-> "", end_date |-> "",
           metrics |-> <<>>, dimensions |-> NoneList, order_by |-> NoneList,
           name |-> NoneStr, page_token |-> NoneStr, page_size |-> None]
NoResult == [kind |-> "unset", data |-> <<>>, index |-> <<>>, names |-> <<>>,
             name |-> "", report |-> EmptyDict]

----------------------------------------------------------------------------
(* Metric and dimension value objects (easy_gar.reporting.metrics /        *)
(* .dimensions): calling one gives its wire form, .alias its column name.  *)

Wire(obj) == [wire |-> obj]
Alias(obj) == [alias |-> obj]
DateDimension == "date"

MetricLists == {<<"sessions">>, <<"sessions", "users">>}
DimensionArgs == {NoneList, Some(<<>>), Some(<<"country">>),
                  Some(<<"country", "date">>)}
PageSizeArgs == {None, Some(0), Some(1), Some(25), Some(10000), Some(10001)}
PageTokenArgs == {NoneStr, Some(""), Some("t1")}
OrderByArgs == {NoneList, Some(<<>>), Some(<<"sessions">>)}
SamplingArgs == {NoneStr, Some("LARGE")}
WireDimensionLists == {<<Wire("date")>>, <<Wire("country"), Wire("date")>>}
Reasons == {"userRateLimitExceeded", "quotaExceeded", "internalServerError",
            "backendError", "forbidden", "badRequest"}
Tokens == {"t1"}
default_sampling_level == "DEFAULT"
view_id == "view"

TruthyInt(x) == ~x.isNone /\ x.value # 0
TruthyStr(x) == ~x.isNone /\ x.value # ""
TruthyList(x) == ~x.isNone /\ x.value # <<>>
\* variant: tests `response is not None` instead of truthiness
TruthyDictNotNone(d) == TRUE
TruthyDict(d) == d.keys # {}

----------------------------------------------------------------------------
(* The remote endpoint: the reports it can answer with for a request that  *)
(* asks for nd dimensions and nm metrics.                                  *)

Row(id, nd, nm) ==
    [dimensions |-> [d \in 1..nd |-> 10 * id + d],
     metrics |-> << [values |-> [m \in 1..nm |-> 100 * id + m]] >>]

RowLists(nd, nm) ==
    UNION {{[i \in 1..k |-> Row(ids[i], nd, nm)] : ids \in [1..k -> 1..NumRowIds]}
           : k \in 0..MaxRows}

Reports(nd, nm) ==
    {EmptyDict, [keys |-> {"columnHeader"}, rows |-> <<>>, nextPageToken |-> ""]}
    \cup {[keys |-> {"columnHeader", "data"}, rows |-> rs, nextPageToken |-> ""]
           : rs \in RowLists(nd, nm)}
    \cup {[keys |-> {"columnHeader", "data", "nextPageToken"}, rows |-> rs,
            nextPageToken |-> t] : rs \in RowLists(nd, nm), t \in Tokens}

----------------------------------------------------------------------------
(* ReportingAPI *)

Methods == {"__init__", "_request_with_exponential_backoff", "_get", "get_report"}

\* OrderBy.__call__
OrderByCall(field_name) ==
    [fieldName |-> field_name, orderType |-> "VALUE", sortOrder |-> "ASCENDING"]

\* variant: every HttpError is treated as transient
IsTransientAny(reason) == reason \in Reasons
\* the reasons the retry loop treats as transient
IsTransient(reason) ==
    reason \in {"userRateLimitExceeded", "quotaExceeded", "internalServerError",
                "backendError"}

\* The statement `time.sleep((2 ** n)) + random.random()`: time.sleep is
\* called with 2 ** n and returns None, random.random() is drawn, and adding
\* the two raises TypeError.
BackoffStatement(k, jitter) ==
    [slept |-> Pow2(k) * JitterScale, exc |-> TypeError]

\* variant: `str(page_size) if page_size is not None else "10000"`
PageSizeFieldNotNone(page_size) ==
    IF page_size.isNone THEN Str(DefaultPageSize) ELSE Str(page_size.value)
\* `page_size and str(page_size) or "10000"`
PageSizeField(page_size) ==
    IF TruthyInt(page_size) THEN Str(page_size.value) ELSE Str(DefaultPageSize)

\* variant: `if dimensions is None:`
DefaultDimensionsIfNone(dims) ==
    IF dims.isNone THEN <<DateDimension>> ELSE dims.value
\* `if not dimensions: dimensions = [easy_gar.reporting.dimensions.date]`
DefaultDimensions(dims) ==
    IF TruthyList(dims) THEN dims.value ELSE <<DateDimension>>

\* request body of _get
RequestBody(a, _metrics, _dimensions) ==
    [keys |-> {"samplingLevel", "viewId", "dateRanges", "metrics", "dimensions",
               "pageSize"}
              \cup (IF TruthyStr(a.page_token) THEN {"pageToken"} ELSE {})
              \cup (IF TruthyList(a.order_by) THEN {"orderBys"} ELSE {}),
     samplingLevel |-> IF TruthyStr(a.sampling_level) THEN a.sampling_level.value
                       ELSE default_sampling_level,
     viewId |-> view_id,
     dateRanges |-> << [startDate |-> a.start_date, endDate |-> a.end_date] >>,
     metrics |-> _metrics,
     dimensions |-> _dimensions,
     pageSize |-> PageSizeField(a.page_size),
     pageToken |-> IF TruthyStr(a.page_token) THEN a.page_token.value ELSE "",
     orderBys |-> IF TruthyList(a.order_by)
                  THEN [i \in 1..Len(a.order_by.value) |->
                            OrderByCall(a.order_by.value[i])]
                  ELSE <<>>]

Min(a, b) == IF a <= b THEN a ELSE b

\* zip(*rows)
ZipStar(rows) ==
    IF rows = <<>> THEN <<>>
    ELSE LET w == CHOOSE l \in {Len(rows[i]) : i \in 1..Len(rows)} :
                      \A i \in 1..Len(rows) : l <= Len(rows[i])
         IN [c \in 1..w |-> [r \in 1..Len(rows) |-> rows[r][c]]]

\* tuple(row["metrics"][0]["values"]) for row in response["data"]["rows"]
RowValues(report) ==
    [i \in 1..Len(report.rows) |-> report.rows[i].metrics[1].values]

\* tuple(row["dimensions"]) for row in response["data"]["rows"]
RowIndices(report) ==
    [i \in 1..Len(report.rows) |-> report.rows[i].dimensions]

\* easy_gar.report.Report(data, index, name) with
\* data = zip(fieldnames, zip(*rows)) and index = MultiIndex.from_tuples(...)
MakeReport(metrics, dims, rows, indices, name) ==
    LET cols == ZipStar(rows)
    IN [kind |-> "Report",
        data |-> [i \in 1..Min(Len(metrics), Len(cols)) |->
                      <<Alias(metrics[i]), cols[i]>>],
        index |-> indices,
        names |-> [i \in 1..Len(dims) |-> Alias(dims[i])],
        name |-> name.value,
        report |-> EmptyDict]

----------------------------------------------------------------------------
Init ==
    /\ pc = "idle"
    /\ op = ""
    /\ args = NoArgs
    /\ dimensions = <<>>
    /\ body = NoBody
    /\ n = 0
    /\ error = NoError
    /\ response = EmptyDict
    /\ page_token = ""
    /\ result = NoResult
    /\ raised = NoError
    /\ requests = <<>>
    /\ served = <<>>
    /\ errs = <<>>
    /\ slept = <<>>
    /\ jitters = <<>>

\* get_report up to its call of _get, and _get up to its call of
\* _request_with_exponential_backoff
GetReport(sl, ms, dims, ob) ==
    /\ pc = "idle"
    /\ LET a == [NoArgs EXCEPT !.sampling_level = sl, !.start_date = "7daysAgo",
                                !.end_date = "today", !.metrics = ms,
                                !.dimensions = dims, !.order_by = ob]
           ds == DefaultDimensions(dims)
       IN /\ args' = a
          /\ dimensions' = ds
          /\ body' = RequestBody(a, [i \in 1..Len(ms) |-> Wire(ms[i])],
                                 [i \in 1..Len(ds) |-> Wire(ds[i])])
    /\ op' = "get_report"
    /\ n' = 0
    /\ error' = NoError
    /\ pc' = "attempt"
    /\ UNCHANGED <<response, page_token, result, raised, requests, served, errs,
                   slept, jitters>>

\* a direct call of _get, up to its call of _request_with_exponential_backoff
Get(ds, pt, ps) ==
    /\ pc = "idle"
    /\ LET a == [NoArgs EXCEPT !.metrics = <<Wire("sessions")>>,
                                !.dimensions = Some(ds),
                                !.page_token = pt, !.page_size = ps]
       IN /\ args' = a
          /\ body' = RequestBody(a, a.metrics, ds)
    /\ op' = "_get"
    /\ n' = 0
    /\ error' = NoError
    /\ pc' = "attempt"
    /\ UNCHANGED <<dimensions, response, page_token, result, raised, requests,
                   served, errs, slept, jitters>>

\* one iteration of the retry loop in which execute() returns; _get then
\* returns response["reports"][0]
ExecuteReturns(report) ==
    /\ pc = "attempt"
    /\ requests' = Append(requests, [reportRequests |-> <<body>>])
    /\ served' = Append(served, report)
    /\ LET reply == [reports |-> <<report>>]
       IN IF op = "_get"
          THEN /\ result' = [NoResult EXCEPT !.kind = "page",
                                             !.report = reply.reports[1]]
               /\ pc' = "done"
               /\ UNCHANGED response
          ELSE /\ response' = reply.reports[1]
               /\ pc' = "page"
               /\ UNCHANGED result
    /\ UNCHANGED <<op, args, dimensions, body, n, error, page_token, raised,
                   errs, slept, jitters>>

\* one iteration of the retry loop in which execute() raises HttpError
ExecuteRaises(reason, jitter) ==
    /\ pc = "attempt"
    /\ requests' = Append(requests, [reportRequests |-> <<body>>])
    /\ LET err == HttpError(reason, Len(requests) + 1)
       IN /\ error' = err
          /\ errs' = Append(errs, err)
          /\ IF IsTransient(reason)
             THEN LET out == BackoffStatement(n, jitter)
                  IN /\ slept' = Append(slept, out.slept)
                     /\ jitters' = Append(jitters, jitter)
                     /\ IF out.exc # NoError
                        THEN \* the exception leaves the handler and the function
                             /\ raised' = out.exc
                             /\ pc' = "raised"
                             /\ n' = n
                        ELSE IF n + 1 < MaxAttempts
                        THEN /\ n' = n + 1
                             /\ pc' = "attempt"
                             /\ UNCHANGED raised
                        ELSE \* range exhausted: raise error
                             /\ raised' = err
                             /\ pc' = "raised"
                             /\ n' = n
             ELSE \* break; raise error
                  /\ raised' = err
                  /\ pc' = "raised"
                  /\ UNCHANGED <<n, slept, jitters>>
    /\ UNCHANGED <<op, args, dimensions, body, response, page_token, result,
                   served>>

\* get_report: `if response:` is false, the function falls off its end
ReturnNone ==
    /\ pc = "page"
    /\ ~TruthyDict(response)
    /\ result' = [NoResult EXCEPT !.kind = "None"]
    /\ pc' = "done"
    /\ UNCHANGED <<op, args, dimensions, body, n, error, response, page_token,
                   raised, requests, served, errs, slept, jitters>>

\* get_report: response["data"] of a non-empty response without data
RowsKeyError ==
    /\ pc = "page"
    /\ TruthyDict(response)
    /\ "data" \notin response.keys
    /\ raised' = KeyError
    /\ pc' = "raised"
    /\ UNCHANGED <<op, args, dimensions, body, n, error, response, page_token,
                   result, requests, served, errs, slept, jitters>>

\* get_report: the response carries nextPageToken; the loop body reads the
\* token and looks up self._batch_get, which ReportingAPI does not define
NextPage ==
    /\ pc = "page"
    /\ TruthyDict(response)
    /\ "data" \in response.keys
    /\ "nextPageToken" \in response.keys
    /\ page_token' = response.nextPageToken
    /\ "_batch_get" \notin Methods
    /\ raised' = AttributeError
    /\ pc' = "raised"
    /\ UNCHANGED <<op, args, dimensions, body, n, error, response, result,
                   requests, served, errs, slept, jitters>>

\* get_report: no nextPageToken; build the table and return the Report
BuildReport ==
    /\ pc = "page"
    /\ TruthyDict(response)
    /\ "data" \in response.keys
    /\ "nextPageToken" \notin response.keys
    /\ result' = MakeReport(args.metrics, dimensions, RowValues(response),
                            RowIndices(response), args.name)
    /\ pc' = "done"
    /\ UNCHANGED <<op, args, dimensions, body, n, error, response, page_token,
                   raised, requests, served, errs, slept, jitters>>

Next ==
    \/ \E sl \in SamplingArgs, ms \in MetricLists, dims \in DimensionArgs,
          ob \in OrderByArgs : GetReport(sl, ms, dims, ob)
    \/ \E ds \in WireDimensionLists, pt \in PageTokenArgs, ps \in PageSizeArgs :
          Get(ds, pt, ps)
    \/ \E report \in Reports(Len(body.dimensions), Len(body.metrics)) :
          ExecuteReturns(report)
    \/ \E reason \in Reasons, jitter \in 0..(JitterScale - 1) :
          ExecuteRaises(reason, jitter)
    \/ ReturnNone
    \/ RowsKeyError
    \/ NextPage
    \/ BuildReport

Spec == Init /\ [][Next]_vars

----------------------------------------------------------------------------
(* Vocabulary of the properties *)

FourReasons == {"userRateLimitExceeded", "quotaExceeded", "internalServerError",
                "backendError"}

Finished == pc \in {"done", "raised"}

AllTransient == errs # <<>> /\ \A i \in 1..Len(errs) : errs[i].reason \in FourReasons

SentBody(i) == requests[i].reportRequests[1]

\* value of a decimal string
RECURSIVE DecimalValue(_)
DecimalValue(digits) ==
    IF digits = <<>> THEN 0
    ELSE 10 * DecimalValue(SubSeq(digits, 1, Len(digits) - 1)) + digits[Len(digits)]

RECURSIVE Concat(_)
Concat(seqs) == IF seqs = <<>> THEN <<>> ELSE Head(seqs) \o Concat(Tail(seqs))

ServedValues == Concat([i \in 1..Len(served) |-> RowValues(served[i])])
ServedIndices == Concat([i \in 1..Len(served) |-> RowIndices(served[i])])

DimensionsOmitted == args.dimensions.isNone \/ args.dimensions.value = <<>>

----------------------------------------------------------------------------
(* C1: when every call of the endpoint fails with one of the four         *)
(* transient reasons, the request is sent exactly 5 times before an error *)
(* reaches the caller: never fewer, never a 6th.                           *)
C1_FiveAttemptsBeforeError ==
    /\ AllTransient => Len(requests) <= MaxAttempts
    /\ (pc = "raised" /\ AllTransient) => Len(requests) = MaxAttempts

(* C2: the table get_report returns has as many rows as all pages         *)
(* together, and its metric values and index tuples are the pages' rows   *)
(* in page-arrival order.                                                  *)
C2_RowsOfAllPagesInOrder ==
    (/\ op = "get_report"
     /\ Finished
     /\ errs = <<>>
     /\ \A i \in 1..Len(served) : "data" \in served[i].keys)
    => /\ result.kind = "Report"
       /\ result.index = ServedIndices
       /\ \A c \in 1..Len(result.data) :
              /\ Len(result.data[c][2]) = Len(ServedValues)
              /\ \A r \in 1..Len(ServedValues) :
                     result.data[c][2][r] = ServedValues[r][c]

(* C3: every page received with a nextPageToken is followed by exactly    *)
(* one further request carrying that token, and get_report returns the    *)
(* report only after a page without nextPageToken.                         *)
C3_PaginationFollowsTokens ==
    (op = "get_report" /\ Finished /\ errs = <<>>)
    => /\ Len(requests) = Len(served)
       /\ \A i \in 1..Len(served) :
              "nextPageToken" \in served[i].keys
              => /\ i < Len(requests)
                 /\ "pageToken" \in SentBody(i + 1).keys
                 /\ SentBody(i + 1).pageToken = served[i].nextPageToken
       /\ result.kind = "Report"
          => "nextPageToken" \notin served[Len(served)].keys

(* C4: an HttpError with a reason outside the four transient ones reaches *)
(* the caller as it is, on its first occurrence: no request follows it    *)
(* and no sleep is performed for it.                                       *)
C4_NonTransientPropagatesAtOnce ==
    \A i \in 1..Len(errs) :
        errs[i].reason \notin FourReasons
        => /\ i = Len(errs)
           /\ pc = "raised"
           /\ raised = errs[i]
           /\ Len(requests) = errs[i].attempt
           /\ Len(slept) = i - 1

C4_Witness ==
    /\ pc = "raised"
    /\ Len(errs) = 1
    /\ errs[1].reason = "forbidden"
    /\ raised = HttpError("forbidden", 1)
    /\ Len(requests) = 1
    /\ slept = <<>>

(* C5: when all attempts failed with transient errors, the exception that *)
(* reaches the caller is the HttpError of the last attempt.                *)
C5_LastErrorSurfaces ==
    (pc = "raised" /\ AllTransient) => raised = errs[Len(errs)]

(* C6: an empty first page makes get_report return None: no error, no     *)
(* further request, no table.                                              *)
C6_EmptyFirstResponseYieldsNone ==
    (op = "get_report" /\ served # <<>> /\ served[1].keys = {})
    => /\ pc \in {"page", "done"}
       /\ raised = NoError
       /\ Len(requests) = 1
       /\ Len(served) = 1
       /\ result.kind # "Report"
       /\ pc = "done" => result.kind = "None"

C6_Witness ==
    /\ op = "get_report"
    /\ pc = "done"
    /\ served = <<EmptyDict>>
    /\ result.kind = "None"
    /\ raised = NoError

(* C7 as stated: every request body carries page size 10000 when no page  *)
(* size is given and the explicit page size otherwise.                     *)
C7_ExplicitPageSizeCarried ==
    \A i \in 1..Len(requests) :
        /\ "pageSize" \in SentBody(i).keys
        /\ DecimalValue(SentBody(i).pageSize) =
              IF args.page_size.isNone THEN 10000 ELSE args.page_size.value

(* C7 amended: every request body carries page size 10000 when the page   *)
(* size is None or 0 and the explicit page size otherwise; every request  *)
(* of get_report carries 10000.                                            *)
C7_NonZeroPageSizeCarried ==
    \A i \in 1..Len(requests) :
        /\ "pageSize" \in SentBody(i).keys
        /\ DecimalValue(SentBody(i).pageSize) =
              IF args.page_size.isNone \/ args.page_size.value = 0
              THEN 10000 ELSE args.page_size.value
        /\ op = "get_report" => SentBody(i).pageSize = <<1, 0, 0, 0, 0>>

C7_Witness ==
    /\ op = "_get"
    /\ args.page_size = Some(25)
    /\ Len(requests) = 1
    /\ SentBody(1).pageSize = <<2, 5>>

(* C8: with dimensions None or empty, the request carries the date        *)
(* dimension alone and the table's index has one level, named by the date *)
(* dimension's alias; given dimensions are sent unchanged and in order.    *)
C8_DefaultDateDimension ==
    op = "get_report"
    => /\ \A i \in 1..Len(requests) :
              SentBody(i).dimensions =
                  IF DimensionsOmitted THEN <<Wire("date")>>
                  ELSE [k \in 1..Len(args.dimensions.value) |->
                            Wire(args.dimensions.value[k])]
       /\ (result.kind = "Report" /\ DimensionsOmitted)
          => result.names = <<Alias("date")>>

C8_Witness ==
    /\ op = "get_report"
    /\ args.dimensions = Some(<<>>)
    /\ pc = "done"
    /\ result.kind = "Report"
    /\ result.names = <<Alias("date")>>
    /\ Len(result.index) = MaxRows
    /\ SentBody(1).dimensions = <<Wire("date")>>

(* C9: after failed attempt n with a transient reason the wait is 2^n     *)
(* time units plus the jitter drawn, and the next attempt follows.         *)
C9_JitteredExponentialBackoff ==
    \A i \in 1..Len(slept) :
        /\ slept[i] = Pow2(i - 1) * JitterScale + jitters[i]
        /\ (i < MaxAttempts /\ Len(requests) = i) => pc = "attempt"

(* C10: a transient failure on one of the attempts 1..4 leaves the call   *)
(* in progress with no error raised, and the response of a later          *)
(* successful attempt is what the caller gets.                             *)
C10_TransientThenSuccess ==
    [][/\ (/\ Len(errs') = Len(errs) + 1
           /\ errs'[Len(errs')].reason \in FourReasons
           /\ Len(requests') < MaxAttempts)
          => (pc' = "attempt" /\ raised' = NoError)
       /\ Len(served') = Len(served) + 1
          => /\ raised' = NoError
             /\ \/ response' = served'[Len(served')]
                \/ result'.report = served'[Len(served')]]_vars

====
